---------------------------- MODULE Spec2Model ----------------------------
(***************************************************************************)
(* One execution of the seismic dashboard script src/12.py: one HTTP GET,  *)
(* the status check, the DataFrame, the cleaning of coordinates, magnitude *)
(* and date, the statistics, the slider filter and the four charts.        *)
(*                                                                         *)
(* Units: magnitudes and the slider value are in tenths (4.0 is 40),       *)
(* coordinates in tenths of a degree (-55.0 is -550), times in whole days. *)
(* A string is a sequence of one-character strings.                        *)
(***************************************************************************)
EXTENDS Integers, Sequences, FiniteSets, TLC

\* ------------------------------------------------------------------ bounds
\* The largest number of records in a response body.
MaxRows == 2

\* ------------------------------------------------------------------ values
\* NaN / NaT / None / JSON null: a missing cell.
Null == [tag |-> "nan"]
\* The cell of a column the table does not have.
NoCol == [tag |-> "nocol"]
\* A variable the script has not assigned yet.
Unset == [tag |-> "unset"]
Num(x) == [tag |-> "num", v |-> x]
Text(s) == [tag |-> "text", s |-> s]
\* A pandas Timestamp or a datetime, to the day.
Ts(d) == [tag |-> "ts", d |-> d]
\* A pandas Series: index -> value.
Series(f) == [tag |-> "series", v |-> f]

Digits == <<"0", "1", "2", "3", "4", "5", "6", "7", "8", "9">>
IsDigit(c) == \E k \in 1..10 : Digits[k] = c
DigitVal(c) == (CHOOSE k \in 1..10 : Digits[k] = c) - 1
\* Character order of the strings the model compares (digits only).
CharCode(c) == IF IsDigit(c) THEN DigitVal(c) ELSE 10

RECURSIVE ParseInt(_)
ParseInt(s) ==
    IF s = <<>> THEN 0
    ELSE 10 * ParseInt(SubSeq(s, 1, Len(s) - 1)) + DigitVal(s[Len(s)])

AllDigits(s) == Len(s) >= 1 /\ \A k \in 1..Len(s) : IsDigit(s[k])

\* ---------------------------------------------------------------- constants
lat_min == -550
lat_max == -175
lon_min == -750
lon_max == -660
\* timedelta(days=30) and the exclusive upper end of np.random.randint(0, 30).
WindowDays == 30
RandintHigh == 30
\* The slider: 0.0 to 10.0, default 4.0.
SliderMin == 0
SliderMax == 100
SliderDefault == 40

\* ------------------------------------------------------------------ inputs
StatusCodes == {200, 404, 500}
\* datetime.now(), to the day.
Clock == {45, 60}
\* Values of the slider the user may have chosen (the default among them).
Thresholds == {SliderMin, SliderDefault, SliderMax}

LatInputs == {Null, Num(-334)}
LonInputs == {Null, Num(-706)}
\* A JSON number, a numeric string, a non-numeric string, null.
MagInputs == {Null, Num(40), Text(<<"3", ".", "5">>), Text(<<"a", "b">>)}
\* Two dates (one not zero-padded), an unparseable string, null.
FechaInputs == {Null, Text(<<"x">>), Text(<<"7">>), Text(<<"1", "2">>)}

\* strftime: a day number as two digits.
FormatDay(d) == <<Digits[((d \div 10) % 10) + 1], Digits[(d % 10) + 1]>>

ColumnNames == {"lat", "lon", "Magnitud", "Fecha"}

Cell(cols, c, S) == IF c \in cols THEN S ELSE {NoCol}

\* The cells of 'lat' or 'lon'. The script reads them only when both columns
\* exist; the cells of a lone column are never read, and one value stands
\* for them.
CoordCell(cols, c, S) ==
    IF {"lat", "lon"} \subseteq cols THEN S
    ELSE IF c \in cols THEN S \ {Null}
    ELSE {NoCol}

\* Responses whose coordinates and magnitudes vary; every record has a date,
\* the most recent record first (as the API lists them).
BodiesCoord(n, cols) ==
    IF "Fecha" \notin cols THEN {}
    ELSE { [cols |-> cols,
            rows |-> [i \in 1..n |->
                        [lat |-> c[i].lat, lon |-> c[i].lon,
                         Magnitud |-> c[i].Magnitud,
                         Fecha |-> Text(FormatDay(20 - i))]]] :
            c \in [1..n -> [lat : CoordCell(cols, "lat", LatInputs),
                            lon : CoordCell(cols, "lon", LonInputs),
                            Magnitud : Cell(cols, "Magnitud", MagInputs)]] }

\* Responses whose dates and magnitudes vary; every record has coordinates.
BodiesFecha(n, cols) ==
    IF ~({"lat", "lon"} \subseteq cols) THEN {}
    ELSE { [cols |-> cols,
            rows |-> [i \in 1..n |->
                        [lat |-> Num(-334), lon |-> Num(-706),
                         Magnitud |-> c[i].Magnitud,
                         Fecha |-> c[i].Fecha]]] :
            c \in [1..n -> [Magnitud : Cell(cols, "Magnitud", MagInputs),
                            Fecha : Cell(cols, "Fecha", FechaInputs)]] }

\* The JSON bodies of a 200 response with n records and the columns cols: an
\* array of n objects. A column exists when some object has the key, so an
\* empty array has no column at all.
Bodies(n, cols) ==
    IF n = 0 THEN (IF cols = {} THEN { [cols |-> {}, rows |-> <<>>] } ELSE {})
    ELSE BodiesCoord(n, cols) \cup BodiesFecha(n, cols)

\* ------------------------------------------------------------- conversions
\* pd.DataFrame(datos_sismos): the rows get the index labels 0, 1, ... (here
\* 1, 2, ...) and the columns of the body.
DataFrame(datos) ==
    [cols |-> datos.cols,
     rows |-> [i \in 1..Len(datos.rows) |->
                 [i |-> i,
                  lat |-> datos.rows[i].lat, lon |-> datos.rows[i].lon,
                  Latitud |-> NoCol, Longitud |-> NoCol,
                  Magnitud |-> datos.rows[i].Magnitud,
                  Fecha |-> datos.rows[i].Fecha]]]

\* A decimal literal: digits, or digits "." digit (one fractional digit is
\* all the inputs of the model have).
IsDecimal(s) ==
    \/ AllDigits(s)
    \/ /\ Len(s) >= 3
       /\ s[Len(s) - 1] = "."
       /\ IsDigit(s[Len(s)])
       /\ AllDigits(SubSeq(s, 1, Len(s) - 2))

DecimalTenths(s) ==
    IF AllDigits(s) THEN 10 * ParseInt(s)
    ELSE 10 * ParseInt(SubSeq(s, 1, Len(s) - 2)) + DigitVal(s[Len(s)])

\* pd.to_numeric(x, errors='coerce') on one cell.
to_numeric(x) ==
    IF x.tag = "num" THEN x
    ELSE IF x.tag = "text" /\ IsDecimal(x.s) THEN Num(DecimalTenths(x.s))
    ELSE Null

\* A parser that takes only the zero-padded form.
to_datetime_strict(x) ==
    IF x.tag = "text" /\ AllDigits(x.s) /\ Len(x.s) = 2 THEN Ts(ParseInt(x.s))
    ELSE Null

\* pd.to_datetime(x, errors='coerce') on one cell: a date written as a day
\* number of one or two digits parses, anything else is NaT.
to_datetime(x) ==
    IF x.tag = "text" /\ AllDigits(x.s) /\ Len(x.s) <= 2 THEN Ts(ParseInt(x.s))
    ELSE Null

\* Series.dt.strftime on one cell: NaT stays missing.
strftime(x) == IF x.tag = "ts" THEN Text(FormatDay(x.d)) ELSE Null

\* np.random.uniform(low, high): a value of [low, high); the two ends of the
\* range stand for the draw.
uniform(low, high) == {low, high - 1}

\* The upper end taken as inclusive.
randint_inclusive(low, high) == {low, high}

\* np.random.randint(low, high): an integer of [low, high).
randint(low, high) == {low, high - 1}

\* The latitudes drawn from the longitude range.
SynthLatitud_lon_range(n) == [1..n -> uniform(lon_min, lon_max)]

SynthLatitud(n) == [1..n -> uniform(lat_min, lat_max)]
SynthLongitud(n) == [1..n -> uniform(lon_min, lon_max)]
\* start_date + timedelta(days=np.random.randint(0, 30)), one per row.
SynthFecha(n, start_date) ==
    { [i \in 1..n |-> start_date + k[i]] : k \in [1..n -> randint(0, RandintHigh)] }

\* ------------------------------------------------------- table operations
IsNum(x) == x.tag = "num"

\* The comparison turned round: the rows at or below the threshold.
MagnitudAtMost(rows, t) ==
    LET keep(r) == IsNum(r.Magnitud) /\ r.Magnitud.v <= t
    IN  SelectSeq(rows, keep)

\* df[df['Magnitud'] >= magnitud_min]: a comparison with NaN is False.
MagnitudAtLeast(rows, t) ==
    LET keep(r) == IsNum(r.Magnitud) /\ r.Magnitud.v >= t
    IN  SelectSeq(rows, keep)

\* dropna with the subset cut to one column.
dropna_latitud_only(rows) ==
    LET keep(r) == r.Latitud # Null
    IN  SelectSeq(rows, keep)

\* dropna(subset=['Latitud', 'Longitud']).
dropna(rows) ==
    LET keep(r) == r.Latitud # Null /\ r.Longitud # Null
    IN  SelectSeq(rows, keep)

RECURSIVE SumOver(_, _, _)
\* The sum of the numeric cells of column col over the positions in S.
SumOver(rows, col, S) ==
    IF S = {} THEN 0
    ELSE LET k == CHOOSE x \in S : TRUE
         IN  rows[k][col].v + SumOver(rows, col, S \ {k})

NumericAt(rows, col) == {k \in 1..Len(rows) : IsNum(rows[k][col])}

\* One column of df.describe(): count, mean (as sum over count), min, max.
DescribeColumn(rows, col) ==
    LET S == NumericAt(rows, col)
    IN  IF S = {} THEN [count |-> 0]
        ELSE [count |-> Cardinality(S),
              sum |-> SumOver(rows, col, S),
              min |-> CHOOSE m \in {rows[k][col].v : k \in S} :
                        \A k \in S : m <= rows[k][col].v,
              max |-> CHOOSE m \in {rows[k][col].v : k \in S} :
                        \A k \in S : m >= rows[k][col].v]

describe(rows) ==
    [c \in {"Latitud", "Longitud", "Magnitud"} |-> DescribeColumn(rows, c)]

\* df['Magnitud'].dropna().value_counts().sort_index(): magnitude -> count.
value_counts(rows) ==
    [m \in {rows[k].Magnitud.v : k \in NumericAt(rows, "Magnitud")} |->
        Cardinality({k \in 1..Len(rows) : rows[k].Magnitud = Num(m)})]

\* groupby('Fecha')['Magnitud'].mean(): rows with a missing Fecha are in no
\* group; the mean skips missing magnitudes and is missing when all are.
groupby_mean(rows) ==
    [f \in {rows[k].Fecha.s : k \in {j \in 1..Len(rows) : rows[j].Fecha.tag = "text"}} |->
        LET S == {k \in NumericAt(rows, "Magnitud") : rows[k].Fecha = Text(f)}
        IN  IF S = {} THEN Null
            ELSE [tag |-> "mean", sum |-> SumOver(rows, "Magnitud", S),
                  count |-> Cardinality(S)]]

RECURSIVE StrLess(_, _)
\* Lexicographic order of two strings.
StrLess(a, b) ==
    IF b = <<>> THEN FALSE
    ELSE IF a = <<>> THEN TRUE
    ELSE IF CharCode(a[1]) # CharCode(b[1]) THEN CharCode(a[1]) < CharCode(b[1])
    ELSE StrLess(Tail(a), Tail(b))

\* x may stand before y in an ascending sort with na_position='last'.
FechaLeq(x, y) ==
    \/ y = Null
    \/ x # Null /\ y # Null /\ ~StrLess(y.s, x.s)

\* The sort with ascending=False.
sort_values_descending(rows) ==
    { [k \in 1..Len(rows) |-> rows[p[k]]] : p \in
        {q \in Permutations(1..Len(rows)) :
            \A k \in 1..(Len(rows) - 1) :
                FechaLeq(rows[q[k + 1]].Fecha, rows[q[k]].Fecha)} }

\* sort_values('Fecha'): the default sort (quicksort) is not stable, so rows
\* with equal keys may come out in any order.
sort_values(rows) ==
    { [k \in 1..Len(rows) |-> rows[p[k]]] : p \in
        {q \in Permutations(1..Len(rows)) :
            \A k \in 1..(Len(rows) - 1) :
                FechaLeq(rows[q[k]].Fecha, rows[q[k + 1]].Fecha)} }

\* The scatter chart's frame: the columns of df with Magnitud * 10.
scatter_frame(rows) ==
    [k \in 1..Len(rows) |->
        [i |-> rows[k].i, Longitud |-> rows[k].Longitud,
         Latitud |-> rows[k].Latitud,
         Magnitud |-> IF IsNum(rows[k].Magnitud)
                      THEN Num(rows[k].Magnitud.v * 10) ELSE Null]]

\* ------------------------------------------------------------------- state
VARIABLES
    pc,                   \* the statement the script is at
    gets,                 \* HTTP GETs issued so far
    respuesta,            \* the response: status_code and JSON body
    df_sismos,            \* the table: its columns and rows
    now,                  \* datetime.now() as read at line 52
    estadisticas,         \* df_sismos.describe() as shown
    magnitud_min,         \* the slider's value
    sismos_filtrados,     \* the table given to the 3D map's layer
    deck,                 \* the data of the rendered 3D map
    magnitud_counts,      \* the data of the bar chart
    magnitudes_por_fecha, \* the data of the line chart
    scatter_data,         \* the data of the scatter chart
    out                   \* the elements st.* has emitted, in order

vars == <<pc, gets, respuesta, df_sismos, now, estadisticas, magnitud_min,
          sismos_filtrados, deck, magnitud_counts, magnitudes_por_fecha,
          scatter_data, out>>

Init ==
    /\ pc = "get"
    /\ gets = 0
    /\ respuesta = Unset
    /\ df_sismos = Unset
    /\ now = Unset
    /\ estadisticas = Unset
    /\ magnitud_min = Unset
    /\ sismos_filtrados = Unset
    /\ deck = Unset
    /\ magnitud_counts = Unset
    /\ magnitudes_por_fecha = Unset
    /\ scatter_data = Unset
    /\ out = <<>>

\* Lines 9-21: the title, the description and the one requests.get(URL).
\* A status other than 200 carries no body the script reads.
Get ==
    /\ pc = "get"
    /\ \E code \in StatusCodes :
         \E n \in 0..MaxRows, cols \in SUBSET ColumnNames :
            \E body \in (IF code = 200 THEN Bodies(n, cols) ELSE {Unset}) :
               respuesta' = [status_code |-> code, body |-> body]
    /\ gets' = gets + 1
    /\ out' = out \o <<"title", "header", "write">>
    /\ pc' = "check"
    /\ UNCHANGED <<df_sismos, now, estadisticas, magnitud_min, sismos_filtrados,
                   deck, magnitud_counts, magnitudes_por_fecha, scatter_data>>

\* Lines 24-29: status 200, respuesta.json() and pd.DataFrame.
Parse ==
    /\ pc = "check"
    /\ respuesta.status_code = 200
    /\ out' = Append(out, "write")
    /\ df_sismos' = DataFrame(respuesta.body)
    /\ pc' = "coords"
    /\ UNCHANGED <<gets, respuesta, now, estadisticas, magnitud_min,
                   sismos_filtrados, deck, magnitud_counts,
                   magnitudes_por_fecha, scatter_data>>

\* The error message without the status check in front of it.
ErrorBranch_unguarded ==
    /\ pc = "check"
    /\ out' = Append(out, "error")
    /\ pc' = "end"
    /\ UNCHANGED <<gets, respuesta, df_sismos, now, estadisticas, magnitud_min,
                   sismos_filtrados, deck, magnitud_counts,
                   magnitudes_por_fecha, scatter_data>>

\* Lines 145-146: any other status.
ErrorBranch ==
    /\ pc = "check"
    /\ respuesta.status_code # 200
    /\ out' = Append(out, "error")
    /\ pc' = "end"
    /\ UNCHANGED <<gets, respuesta, df_sismos, now, estadisticas, magnitud_min,
                   sismos_filtrados, deck, magnitud_counts,
                   magnitudes_por_fecha, scatter_data>>

\* Lines 40-41: two new columns of random values.
WithSynthCoords(df, la, lo) ==
    [cols |-> df.cols \cup {"Latitud", "Longitud"},
     rows |-> [k \in 1..Len(df.rows) |->
                 [df.rows[k] EXCEPT !.Latitud = Num(la[k]),
                                    !.Longitud = Num(lo[k])]]]

\* The rename with the two names crossed.
RenameCoords_crossed(df) ==
    [cols |-> (df.cols \ {"lat", "lon"}) \cup {"Latitud", "Longitud"},
     rows |-> [k \in 1..Len(df.rows) |->
                 [df.rows[k] EXCEPT !.Latitud = df.rows[k].lon,
                                    !.Longitud = df.rows[k].lat,
                                    !.lat = NoCol, !.lon = NoCol]]]

\* Line 44: rename(columns={'lat': 'Latitud', 'lon': 'Longitud'}).
RenameCoords(df) ==
    [cols |-> (df.cols \ {"lat", "lon"}) \cup {"Latitud", "Longitud"},
     rows |-> [k \in 1..Len(df.rows) |->
                 [df.rows[k] EXCEPT !.Latitud = df.rows[k].lat,
                                    !.Longitud = df.rows[k].lon,
                                    !.lat = NoCol, !.lon = NoCol]]]

\* Lines 32-44: the coordinates.
CleanCoords ==
    /\ pc = "coords"
    /\ IF "lat" \notin df_sismos.cols \/ "lon" \notin df_sismos.cols
       THEN /\ out' = Append(out, "warning")
            /\ \E la \in SynthLatitud(Len(df_sismos.rows)) :
                 \E lo \in SynthLongitud(Len(df_sismos.rows)) :
                    df_sismos' = WithSynthCoords(df_sismos, la, lo)
       ELSE /\ out' = out
            /\ df_sismos' = RenameCoords(df_sismos)
    /\ pc' = "magnitud"
    /\ UNCHANGED <<gets, respuesta, now, estadisticas, magnitud_min,
                   sismos_filtrados, deck, magnitud_counts,
                   magnitudes_por_fecha, scatter_data>>

\* The column after pd.to_numeric(df_sismos['Magnitud'], errors='coerce').
NumericMagnitud(df) ==
    [df EXCEPT !.rows = [k \in 1..Len(df.rows) |->
        [df.rows[k] EXCEPT !.Magnitud = to_numeric(df.rows[k].Magnitud)]]]

\* Line 47: df_sismos['Magnitud'] raises KeyError when the table has no such
\* column, and the script stops there.
CleanMagnitud ==
    /\ pc = "magnitud"
    /\ IF "Magnitud" \in df_sismos.cols
       THEN /\ df_sismos' = NumericMagnitud(df_sismos)
            /\ pc' = "fecha"
       ELSE /\ df_sismos' = df_sismos
            /\ pc' = "KeyError"
    /\ UNCHANGED <<gets, respuesta, now, estadisticas, magnitud_min,
                   sismos_filtrados, deck, magnitud_counts,
                   magnitudes_por_fecha, scatter_data, out>>

WithFecha(df, f) ==
    [cols |-> df.cols \cup {"Fecha"},
     rows |-> [k \in 1..Len(df.rows) |-> [df.rows[k] EXCEPT !.Fecha = f[k]]]]

\* Lines 50-55: the dates, generated when the column is absent.
CleanFecha ==
    /\ pc = "fecha"
    /\ IF "Fecha" \notin df_sismos.cols
       THEN /\ out' = Append(out, "warning")
            /\ \E t \in Clock :
                 /\ now' = Ts(t)
                 /\ \E f \in SynthFecha(Len(df_sismos.rows), t - WindowDays) :
                      df_sismos' = WithFecha(df_sismos, [k \in DOMAIN f |-> Ts(f[k])])
       ELSE /\ out' = out
            /\ now' = now
            /\ df_sismos' = WithFecha(df_sismos,
                  [k \in 1..Len(df_sismos.rows) |->
                      to_datetime(df_sismos.rows[k].Fecha)])
    /\ pc' = "format"
    /\ UNCHANGED <<gets, respuesta, estadisticas, magnitud_min,
                   sismos_filtrados, deck, magnitud_counts,
                   magnitudes_por_fecha, scatter_data>>

\* Line 58: the dates as text.
FormatFecha ==
    /\ pc = "format"
    /\ df_sismos' = WithFecha(df_sismos,
          [k \in 1..Len(df_sismos.rows) |-> strftime(df_sismos.rows[k].Fecha)])
    /\ pc' = "stats"
    /\ UNCHANGED <<gets, respuesta, now, estadisticas, magnitud_min,
                   sismos_filtrados, deck, magnitud_counts,
                   magnitudes_por_fecha, scatter_data, out>>

\* Lines 61-66: the first rows and the summary statistics.
Statistics ==
    /\ pc = "stats"
    /\ estadisticas' = describe(df_sismos.rows)
    /\ out' = out \o <<"write", "head", "header", "describe">>
    /\ pc' = "filter"
    /\ UNCHANGED <<gets, respuesta, df_sismos, now, magnitud_min,
                   sismos_filtrados, deck, magnitud_counts,
                   magnitudes_por_fecha, scatter_data>>

\* Lines 69-73: the slider and the filtered rows.
Filter ==
    /\ pc = "filter"
    /\ \E t \in Thresholds :
         /\ magnitud_min' = Num(t)
         /\ sismos_filtrados' =
               [df_sismos EXCEPT !.rows = dropna(MagnitudAtLeast(df_sismos.rows, t))]
    /\ out' = Append(out, "slider")
    /\ pc' = "map"
    /\ UNCHANGED <<gets, respuesta, df_sismos, now, estadisticas, deck,
                   magnitud_counts, magnitudes_por_fecha, scatter_data>>

\* Lines 76-105: the 3D column map.
Map3D ==
    /\ pc = "map"
    /\ deck' = sismos_filtrados
    /\ out' = out \o <<"header", "pydeck_chart">>
    /\ pc' = "bar"
    /\ UNCHANGED <<gets, respuesta, df_sismos, now, estadisticas, magnitud_min,
                   sismos_filtrados, magnitud_counts, magnitudes_por_fecha,
                   scatter_data>>

\* Lines 110-112: the bar chart.
BarChart ==
    /\ pc = "bar"
    /\ magnitud_counts' = Series(value_counts(df_sismos.rows))
    /\ out' = out \o <<"header", "bar_chart">>
    /\ pc' = "line"
    /\ UNCHANGED <<gets, respuesta, df_sismos, now, estadisticas, magnitud_min,
                   sismos_filtrados, deck, magnitudes_por_fecha, scatter_data>>

\* Lines 115-118: the line chart, after sort_values('Fecha', inplace=True).
LineChart ==
    /\ pc = "line"
    /\ \E sorted \in sort_values(df_sismos.rows) :
         /\ df_sismos' = [df_sismos EXCEPT !.rows = sorted]
         /\ magnitudes_por_fecha' = Series(groupby_mean(sorted))
    /\ out' = out \o <<"header", "line_chart">>
    /\ pc' = "scatter"
    /\ UNCHANGED <<gets, respuesta, now, estadisticas, magnitud_min,
                   sismos_filtrados, deck, magnitud_counts, scatter_data>>

\* Lines 121-144: the scatter chart, then the closing texts.
ScatterChart ==
    /\ pc = "scatter"
    /\ scatter_data' = [cols |-> {"Longitud", "Latitud", "Magnitud"},
                        rows |-> scatter_frame(df_sismos.rows)]
    /\ out' = out \o <<"header", "scatter_chart", "header", "write", "header", "write">>
    /\ pc' = "end"
    /\ UNCHANGED <<gets, respuesta, df_sismos, now, estadisticas, magnitud_min,
                   sismos_filtrados, deck, magnitud_counts, magnitudes_por_fecha>>

Next ==
    \/ Get
    \/ Parse
    \/ ErrorBranch
    \/ CleanCoords
    \/ CleanMagnitud
    \/ CleanFecha
    \/ FormatFecha
    \/ Statistics
    \/ Filter
    \/ Map3D
    \/ BarChart
    \/ LineChart
    \/ ScatterChart

Spec == Init /\ [][Next]_vars

\* ------------------------------------------------- vocabulary of the claims
Range(seq) == {seq[k] : k \in 1..Len(seq)}
Count(seq, x) == Cardinality({k \in 1..Len(seq) : seq[k] = x})
Ok200 == respuesta # Unset /\ respuesta.status_code = 200
\* The script has stopped: at its last line, or on the uncaught KeyError.
Finished == pc \in {"end", "KeyError"}
\* The cleaning step (lines 32-58) is over.
Cleaned == Ok200 /\ pc \in {"stats", "filter", "map", "bar", "line", "scatter", "end"}
Filtered == Ok200 /\ pc \in {"map", "bar", "line", "scatter", "end"}
Rendered == Ok200 /\ pc = "end"
\* The record of the response a row of the table was made from.
Input(r) == respuesta.body.rows[r.i]
CoordsSynthesized ==
    "lat" \notin respuesta.body.cols \/ "lon" \notin respuesta.body.cols
FechaSynthesized == "Fecha" \notin respuesta.body.cols
\* A date string pd.to_datetime accepts.
IsDateText(x) == x.tag = "text" /\ AllDigits(x.s) /\ Len(x.s) <= 2
\* A numeric input: a JSON number or a decimal literal.
IsNumericInput(x) == x.tag = "num" \/ (x.tag = "text" /\ IsDecimal(x.s))
PassesFilter(r) ==
    /\ IsNum(r.Magnitud) /\ r.Magnitud.v >= magnitud_min.v
    /\ r.Latitud # Null /\ r.Longitud # Null

\* ---------------------------------------------------------------------- C1
\* C1 (as claimed): on a successful run no chart shows a record whose
\* magnitude is below the chosen threshold: all four are rendered from the
\* filtered table.
C1_NoChartBelowThreshold ==
    Rendered =>
        /\ \A r \in Range(deck.rows) : IsNum(r.Magnitud) /\ r.Magnitud.v >= magnitud_min.v
        /\ \A m \in DOMAIN magnitud_counts.v : m >= magnitud_min.v
        /\ \A f \in DOMAIN magnitudes_por_fecha.v :
              magnitudes_por_fecha.v[f] # Null =>
                 magnitudes_por_fecha.v[f].sum >=
                    magnitud_min.v * magnitudes_por_fecha.v[f].count
        /\ \A r \in Range(scatter_data.rows) :
              IsNum(r.Magnitud) => r.Magnitud.v >= 10 * magnitud_min.v

\* C1 (amended): only the 3D map is rendered from the filtered table (no
\* record below the threshold); the bar chart counts every numeric magnitude
\* of the whole cleaned table, the line chart has a point for every date of
\* the whole table, and the scatter chart has one point per row of the whole
\* table, whatever the threshold.
C1_MapFilteredOthersWhole ==
    Rendered =>
        /\ \A r \in Range(deck.rows) : IsNum(r.Magnitud) /\ r.Magnitud.v >= magnitud_min.v
        /\ \A r \in Range(df_sismos.rows) :
              /\ IsNum(r.Magnitud) =>
                    /\ r.Magnitud.v \in DOMAIN magnitud_counts.v
                    /\ magnitud_counts.v[r.Magnitud.v] =
                          Cardinality({q \in Range(df_sismos.rows) : q.Magnitud = r.Magnitud})
              /\ r.Fecha # Null => r.Fecha.s \in DOMAIN magnitudes_por_fecha.v
              /\ \E q \in Range(scatter_data.rows) :
                    /\ q.i = r.i
                    /\ IsNum(r.Magnitud) => q.Magnitud = Num(10 * r.Magnitud.v)
        /\ Len(scatter_data.rows) = Len(df_sismos.rows)

\* A finished run whose bar and scatter charts show a record the threshold
\* excludes from the map.
C1_Witness ==
    /\ Rendered
    /\ \E r \in Range(df_sismos.rows) :
          /\ IsNum(r.Magnitud) /\ r.Magnitud.v < magnitud_min.v
          /\ r.Magnitud.v \in DOMAIN magnitud_counts.v
          /\ r \notin Range(deck.rows)
    /\ deck.rows # <<>>

\* ---------------------------------------------------------------------- C2
\* C2 (as claimed): after the cleaning step every row has both Latitud and
\* Longitud present (non-missing), whatever the response.
C2_EveryRowHasCoords ==
    Cleaned =>
        \A r \in Range(df_sismos.rows) : IsNum(r.Latitud) /\ IsNum(r.Longitud)

\* C2 (amended): after the cleaning step the table has the columns Latitud and
\* Longitud; when 'lat' or 'lon' is absent from the response every row has a
\* non-missing synthesized pair; when both are present every row has the
\* response's values, so a coordinate missing in the response stays missing.
C2_CoordsSynthesizedOrAsGiven ==
    Cleaned =>
        /\ {"Latitud", "Longitud"} \subseteq df_sismos.cols
        /\ \A r \in Range(df_sismos.rows) :
              IF CoordsSynthesized
              THEN IsNum(r.Latitud) /\ IsNum(r.Longitud)
              ELSE r.Latitud = Input(r).lat /\ r.Longitud = Input(r).lon

\* A cleaned table, both columns given, with a row whose latitude is missing
\* beside a row that has both coordinates.
C2_Witness ==
    /\ Cleaned
    /\ ~CoordsSynthesized
    /\ \E r \in Range(df_sismos.rows) : r.Latitud = Null /\ IsNum(r.Longitud)
    /\ \E r \in Range(df_sismos.rows) : IsNum(r.Latitud) /\ IsNum(r.Longitud)

\* ---------------------------------------------------------------------- C3
\* C3 (as claimed): after the cleaning step no row is left with a missing
\* Fecha, whether the column was absent or a value was missing or unparseable.
C3_NoMissingFecha ==
    Cleaned => \A r \in Range(df_sismos.rows) : r.Fecha # Null

\* C3 (amended): after the cleaning step, when the 'Fecha' column is absent
\* every row has a generated date; when it is present a row whose value
\* parses has that date (as text) and a row whose value is missing or
\* unparseable has a missing Fecha.
C3_FechaParsedDefaultedOrMissing ==
    Cleaned =>
        \A r \in Range(df_sismos.rows) :
            IF FechaSynthesized
            THEN r.Fecha.tag = "text" /\ Len(r.Fecha.s) = 2
            ELSE IF IsDateText(Input(r).Fecha)
                 THEN r.Fecha = Text(FormatDay(ParseInt(Input(r).Fecha.s)))
                 ELSE r.Fecha = Null

\* A cleaned table, the column given: a row whose date parsed (and was
\* reformatted) beside a row whose unparseable date is now missing.
C3_Witness ==
    /\ Cleaned
    /\ ~FechaSynthesized
    /\ \E r \in Range(df_sismos.rows) :
          Input(r).Fecha = Text(<<"7">>) /\ r.Fecha = Text(<<"0", "7">>)
    /\ \E r \in Range(df_sismos.rows) :
          Input(r).Fecha = Text(<<"x">>) /\ r.Fecha = Null

\* ---------------------------------------------------------------------- C4
\* C4 (as claimed): for every 200 response the cleaning step completes, also
\* without a 'Magnitud' field, and each row's Magnitud is a number when the
\* input is numeric and missing otherwise.
C4_MagnitudNumericOrMissing ==
    Ok200 =>
        /\ pc # "KeyError"
        /\ Cleaned =>
              \A r \in Range(df_sismos.rows) :
                  IF IsNumericInput(Input(r).Magnitud)
                  THEN IsNum(r.Magnitud)
                  ELSE r.Magnitud = Null

\* ---------------------------------------------------------------------- C5
\* C5 (as claimed): once cleaning has finished, no later step changes the
\* table df_sismos, in content or in row order.
C5_TableFrozenAfterCleaning ==
    [][Cleaned => df_sismos' = df_sismos]_vars

\* C5 (amended): after cleaning, the statistics, filter, map, bar and scatter
\* steps leave df_sismos unchanged; the line-chart step sorts it in place by
\* Fecha (ascending, missing dates last), keeping the same rows and columns,
\* so the scatter chart sees the sorted table.
C5_OnlyLineChartReorders ==
    [][Cleaned =>
         IF pc = "line"
         THEN /\ df_sismos'.cols = df_sismos.cols
              /\ Len(df_sismos'.rows) = Len(df_sismos.rows)
              /\ Range(df_sismos'.rows) = Range(df_sismos.rows)
              /\ \A k \in 1..(Len(df_sismos'.rows) - 1) :
                    FechaLeq(df_sismos'.rows[k].Fecha, df_sismos'.rows[k + 1].Fecha)
         ELSE df_sismos' = df_sismos]_vars

\* The scatter chart is built from a table whose rows are no longer in the
\* order the cleaning step left them in.
C5_Witness ==
    /\ Rendered
    /\ \E k \in 1..Len(df_sismos.rows) : df_sismos.rows[k].i # k
    /\ \E k \in 1..Len(scatter_data.rows) : scatter_data.rows[k].i # k

\* ---------------------------------------------------------------------- C6
\* C6: a status other than 200 gives exactly one error message and none of
\* the parse, clean, statistics, filter or render steps (no table, no slider,
\* no chart); with status 200 the error message is never shown.
C6_ErrorBranchOnlyOnBadStatus ==
    /\ (respuesta # Unset /\ respuesta.status_code # 200) =>
          /\ pc \in {"check", "end"}
          /\ pc = "end" => Count(out, "error") = 1
          /\ df_sismos = Unset /\ estadisticas = Unset /\ magnitud_min = Unset
          /\ sismos_filtrados = Unset /\ deck = Unset /\ magnitud_counts = Unset
          /\ magnitudes_por_fecha = Unset /\ scatter_data = Unset
          /\ \A e \in Range(out) : e \in {"title", "header", "write", "error"}
          /\ Len(out) <= 4
    /\ Ok200 => Count(out, "error") = 0

\* A run that ended in the error branch.
C6_Witness ==
    /\ pc = "end"
    /\ respuesta.status_code = 404
    /\ out[Len(out)] = "error"

\* ---------------------------------------------------------------------- C7
\* C7: when the response lacks 'lat' or 'lon', every row gets a synthesized
\* pair inside Chile's bounding box, Latitud in [-55.0, -17.5] and Longitud in
\* [-75.0, -66.0]; when both are present nothing is synthesized and the
\* response's values are kept under the names Latitud and Longitud.
C7_SynthesizedInsideBox ==
    (Ok200 /\ pc \notin {"check", "coords"}) =>
        \A r \in Range(df_sismos.rows) :
            IF CoordsSynthesized
            THEN /\ IsNum(r.Latitud) /\ -550 <= r.Latitud.v /\ r.Latitud.v <= -175
                 /\ IsNum(r.Longitud) /\ -750 <= r.Longitud.v /\ r.Longitud.v <= -660
            ELSE /\ r.Latitud = Input(r).lat /\ r.Longitud = Input(r).lon
                 /\ r.lat = NoCol /\ r.lon = NoCol

\* Two rows of one table with different synthesized pairs, drawn when only
\* the 'lon' column is missing.
C7_Witness ==
    /\ Ok200 /\ pc = "magnitud"
    /\ respuesta.body.cols \cap {"lat", "lon"} = {"lat"}
    /\ \E r, q \in Range(df_sismos.rows) :
          /\ r.Latitud # q.Latitud /\ r.Longitud = q.Longitud
          /\ r.Latitud # r.lat

\* ---------------------------------------------------------------------- C8
\* C8: without a 'Fecha' column every row gets (now - 30 days) + k days with
\* 0 <= k <= 29, never later than now nor earlier than 30 days before it;
\* with the column present no timestamp is synthesized.
C8_SynthesizedWithinLast30Days ==
    /\ (Ok200 /\ pc = "format") =>
          \A r \in Range(df_sismos.rows) :
              IF FechaSynthesized
              THEN /\ r.Fecha.tag = "ts"
                   /\ \E k \in 0..29 : r.Fecha.d = (now.d - 30) + k
                   /\ now.d - 30 <= r.Fecha.d /\ r.Fecha.d <= now.d
              ELSE /\ now = Unset
                   /\ r.Fecha # Null =>
                         /\ IsDateText(Input(r).Fecha)
                         /\ r.Fecha = Ts(ParseInt(Input(r).Fecha.s))
    /\ Cleaned =>
          \A r \in Range(df_sismos.rows) :
              IF FechaSynthesized
              THEN \E k \in 0..29 : r.Fecha = Text(FormatDay((now.d - 30) + k))
              ELSE now = Unset

\* Generated dates at both ends of the window, in one table.
C8_Witness ==
    /\ Ok200 /\ pc = "format" /\ FechaSynthesized
    /\ \E r, q \in Range(df_sismos.rows) :
          r.Fecha = Ts(now.d - 30) /\ q.Fecha = Ts(now.d - 1)

\* ---------------------------------------------------------------------- C9
\* The place of element x in the emitted elements (0 when absent).
Position(x) == IF Count(out, x) = 0 THEN 0 ELSE CHOOSE k \in 1..Len(out) : out[k] = x
StepElements == <<"describe", "slider", "pydeck_chart", "bar_chart",
                  "line_chart", "scatter_chart">>

\* C9 (as claimed): every execution issues exactly one GET, before any other
\* step; on status 200 every step then occurs once, in the order parse,
\* clean, statistics, filter, map, bar, line, scatter, the statistics being
\* those of the whole cleaned table; nothing runs after the end.
C9_OneGetThenEveryStepOnceInOrder ==
    /\ gets <= 1
    /\ pc = "get" => (gets = 0 /\ out = <<>> /\ df_sismos = Unset)
    /\ pc # "get" => gets = 1
    /\ (Finished /\ Ok200) =>
          /\ df_sismos # Unset /\ estadisticas # Unset /\ magnitud_min # Unset
          /\ deck # Unset /\ magnitud_counts # Unset
          /\ magnitudes_por_fecha # Unset /\ scatter_data # Unset
          /\ \A k \in 1..Len(StepElements) : Count(out, StepElements[k]) = 1
          /\ \A k \in 1..(Len(StepElements) - 1) :
                Position(StepElements[k]) < Position(StepElements[k + 1])
          /\ estadisticas["Magnitud"].count =
                Cardinality({r \in Range(df_sismos.rows) : IsNum(r.Magnitud)})
    /\ Finished => ~ENABLED Next

\* --------------------------------------------------------------------- C10
\* C10: the table given to the 3D map holds a row exactly when its magnitude
\* is present and >= t and both its coordinates are present (a missing
\* magnitude is excluded for every t, t = 0.0 included), and its rows are a
\* sub-sequence of the cleaned table, values and relative order unchanged.
C10_FilterSelectsExactly ==
    Filtered =>
        /\ magnitud_min.v \in 0..100
        /\ \A r \in Range(df_sismos.rows) :
              r \in Range(sismos_filtrados.rows) <=> PassesFilter(r)
        /\ Range(sismos_filtrados.rows) \subseteq Range(df_sismos.rows)
        /\ \A j \in 1..(Len(sismos_filtrados.rows) - 1) :
              sismos_filtrados.rows[j].i < sismos_filtrados.rows[j + 1].i
        /\ deck # Unset => deck = sismos_filtrados

\* At t = 0.0: a row without magnitude is left out of the map and a row that
\* passes is on it.
C10_Witness ==
    /\ Filtered /\ deck # Unset /\ magnitud_min = Num(0)
    /\ \E r \in Range(df_sismos.rows) : r.Magnitud = Null /\ r \notin Range(deck.rows)
    /\ \E r \in Range(df_sismos.rows) : r \in Range(deck.rows)

=============================================================================
